---- MODULE Spec2Model ----
(***************************************************************************)
(* simply_time_manager: the task lifecycle controller (TaskService) and    *)
(* the in-memory schedule conflict index (ScheduleService), together with  *)
(* the persisted Task and Schedule rows they read and write.               *)
(***************************************************************************)
EXTENDS Integers, Sequences, FiniteSets, TLC

(* ------------------------------ bounds -------------------------------- *)
\* Task and Schedule rows ever inserted (primary keys are never reused)
MaxRows == 5
\* Requests that go around the lifecycle or fail halfway (ScheduleViewSet for
\* the schedules of ACTIVE tasks, a save that raises) are made while no more
\* than this many rows have been inserted
MaxFaultRows == 2

(* ------------------------- tasks/models.py ---------------------------- *)
PLANNED == "planned"
ACTIVE == "active"
PAUSED == "paused"
FINISHED == "finished"
ARCHIVED == "archived"
TaskState == {PLANNED, ACTIVE, PAUSED, FINISHED, ARCHIVED}

get_state_at_creation == PLANNED

\* the seven weekday flags of a Schedule row, named as Schedule.weekdays does
Weekdays ==
  {"Monday", "Tuesday", "Wednesday", "Thursday", "Friday", "Saturday", "Sunday"}

Window(start_time, end_time, days) ==
  [start_time |-> start_time, end_time |-> end_time, days |-> days]

\* the windows the schedule requests of the model carry (times of day as
\* numbers). Among the first four every relation of two windows occurs: equal,
\* overlapping with an equal start or an equal end, touching, overlapping in
\* time on a shared weekday, on some shared weekdays only, on no shared weekday.
\* The last two violate one CheckConstraint each.
Windows ==
  {Window(0, 2, {"Monday", "Tuesday"}), Window(0, 1, {"Monday"}),
   Window(1, 2, {"Monday"}), Window(0, 2, {"Tuesday"}),
   Window(1, 1, {"Monday"}), Window(0, 1, {})}

\* the CheckConstraints of Schedule.Meta
ScheduleConstraints(start_time, end_time, days) ==
  /\ days \cap Weekdays # {}
  /\ start_time < end_time

\* a request that carries no state
NoState == "none"

VARIABLES
  tasks,        \* Task rows: primary key -> state
  schedules,    \* Schedule rows: primary key -> [task, start_time, end_time, days]
  starts,       \* ScheduleService._starts: sorted list of <<start_time, schedule>>
  ends,         \* ScheduleService._ends: sorted list of <<end_time, schedule>>
  nextTask,     \* next Task primary key
  nextSchedule, \* next Schedule primary key
  requests      \* request thread -> the activation it is in the middle of

vars == <<tasks, schedules, starts, ends, nextTask, nextSchedule, requests>>

\* the threads of the server process; they share the one ScheduleService
Threads == {"thread_1", "thread_2"}

\* a thread that is not inside add_task_schedules
Idle == [pc |-> "idle", task |-> 0, task_schedules |-> <<>>, k |-> 0,
         conflicts |-> FALSE]

(* ------------------------------ outcomes ------------------------------ *)
OK == "ok"
InvalidTransition == "conflict task state"
InvalidCreationState == "conflict task state at creation"
MissingSchedules == "conflict active task schedules missing"
ScheduleConflictCode == "conflict active task schedules"
DeleteConflict == "conflict deleted task"
LogicError == "LogicError"
ValueError == "ValueError"
IntegrityError == "IntegrityError"
DatabaseError == "DatabaseError"

\* the message table of ConflictTaskStateException without the re-finish of an
\* ARCHIVED task
possible_state_changing_archived_final ==
  [s \in TaskState |->
     CASE s = PLANNED -> <<ACTIVE>>
       [] s = ACTIVE -> <<PAUSED, FINISHED>>
       [] s = PAUSED -> <<ACTIVE, FINISHED>>
       [] s = FINISHED -> <<ARCHIVED>>
       [] s = ARCHIVED -> <<>>]

possible_state_changing ==
  [s \in TaskState |->
     CASE s = PLANNED -> <<ACTIVE>>
       [] s = ACTIVE -> <<PAUSED, FINISHED>>
       [] s = PAUSED -> <<ACTIVE, FINISHED>>
       [] s = FINISHED -> <<ARCHIVED>>
       [] s = ARCHIVED -> <<FINISHED>>]

\* ConflictTaskStateException(current_state): the detail is the default text
\* followed, when the table has states for current_state, by a sentence that
\* names current_state and those states in the order of the table
ConflictTaskStateException(current_state) ==
  LET possible_states ==
        IF current_state \in DOMAIN possible_state_changing
          THEN possible_state_changing[current_state] ELSE <<>>
  IN [code |-> InvalidTransition,
      detail |->
        [default_detail |-> "Transiting the current state of the task is not "
                              \o "possible, to the state you specified",
         current_state |-> IF possible_states # <<>> THEN current_state ELSE NoState,
         possible_states |-> possible_states]]

\* ConflictActiveTaskSchedulesException(): add_task_schedules raises it without
\* arguments, so the client receives the default text of the class (its first
\* sentence here); conflicts are the ScheduleConflict values handed over with it
ConflictActiveTaskSchedulesException ==
  [code |-> ScheduleConflictCode,
   detail |->
     [default_detail |-> "This task's schedules conflict with the schedules of other tasks",
      conflicts |-> {}]]

\* the persisted rows and the index, as one value the services transform
\* (save_raises: whether the save of the Task row is going to raise)
World == [tasks |-> tasks, schedules |-> schedules, starts |-> starts,
          ends |-> ends, result |-> OK, save_raises |-> FALSE]

\* the same rows and index before a request whose save raises DatabaseError
WorldSaveRaises == [World EXCEPT !.save_raises = TRUE]

Raise(w, exc) == [w EXCEPT !.result = exc]

(* ------------------------- persistence queries ------------------------ *)
RECURSIVE SortedSeq(_)
SortedSeq(S) ==
  IF S = {} THEN <<>>
  ELSE LET m == CHOOSE x \in S : \A y \in S : x <= y
       IN <<m>> \o SortedSeq(S \ {m})

\* a Schedule model instance: equal to another iff the primary keys are equal
ScheduleObj(w, pk) ==
  [pk |-> pk, task |-> w.schedules[pk].task,
   start_time |-> w.schedules[pk].start_time,
   end_time |-> w.schedules[pk].end_time,
   days |-> w.schedules[pk].days]

\* a queryset of Schedule rows, in primary key order
ScheduleQuery(w, pks) ==
  LET ids == SortedSeq(pks) IN [k \in 1..Len(ids) |-> ScheduleObj(w, ids[k])]

\* instance.schedules.all() / Schedule.objects.filter(task=instance)
task_schedules(w, t) ==
  ScheduleQuery(w, {pk \in DOMAIN w.schedules : w.schedules[pk].task = t})

\* Schedule.objects.filter(task__state=TaskState.ACTIVE)
active_schedules(w) ==
  ScheduleQuery(w, {pk \in DOMAIN w.schedules :
                      w.tasks[w.schedules[pk].task] = ACTIVE})

\* instance.delete() of a Task whose Schedule rows are not deleted with it
DeleteTaskRow_without_cascade(w, t) ==
  [w EXCEPT !.tasks = [x \in DOMAIN w.tasks \ {t} |-> w.tasks[x]]]

\* instance.delete() of a Task: on_delete=CASCADE removes its Schedule rows
DeleteTaskRow(w, t) ==
  [w EXCEPT !.tasks = [x \in DOMAIN w.tasks \ {t} |-> w.tasks[x]],
            !.schedules = [pk \in {p \in DOMAIN w.schedules :
                                     w.schedules[p].task # t}
                             |-> w.schedules[pk]]]

\* schedule.delete() for every row of Schedule.objects.filter(task=instance)
DeleteScheduleRows(w, t) ==
  [w EXCEPT !.schedules = [pk \in {p \in DOMAIN w.schedules :
                                     w.schedules[p].task # t}
                             |-> w.schedules[pk]]]

\* serializer.save() / instance.save() committing a state, or raising
SaveState(w, t, state) ==
  IF w.save_raises THEN Raise(w, DatabaseError) ELSE [w EXCEPT !.tasks[t] = state]

(* --------------------------- SortedList ------------------------------- *)
\* SortedList.bisect_left: the index before the first entry whose key is >= key
bisect_left(list, key) ==
  CHOOSE i \in 0..Len(list) :
    /\ \A j \in 1..i : list[j][1] < key
    /\ \A j \in (i + 1)..Len(list) : list[j][1] >= key

\* SortedList.bisect_right: the index after the last entry whose key is <= key
bisect_right(list, key) ==
  CHOOSE i \in 0..Len(list) :
    /\ \A j \in 1..i : list[j][1] <= key
    /\ \A j \in (i + 1)..Len(list) : list[j][1] > key

\* SortedList.add: the entry goes after the entries of equal key
SortedAdd(list, entry) ==
  LET i == bisect_right(list, entry[1])
  IN SubSeq(list, 1, i) \o <<entry>> \o SubSeq(list, i + 1, Len(list))

\* the positions SortedList.remove would delete at: equal key, equal schedule
Matches(list, entry) ==
  {i \in 1..Len(list) : list[i][1] = entry[1] /\ list[i][2].pk = entry[2].pk}

\* SortedList.remove: deletes the first equal entry (ValueError if none)
SortedRemove(list, entry) ==
  LET i == CHOOSE m \in Matches(list, entry) :
             \A n \in Matches(list, entry) : m <= n
  IN SubSeq(list, 1, i - 1) \o SubSeq(list, i + 1, Len(list))

(* ------------------------- schedule_service.py ------------------------ *)
\* _check_conflict with the end-ordered list cut at the schedule's end time
check_conflict_cut_at_end_time(w, instance) ==
  LET r_boundary_starts == bisect_left(w.starts, instance.end_time)
      start_conflicts == {w.starts[i][2] : i \in 1..r_boundary_starts}
      l_boundary_ends == bisect_right(w.ends, instance.end_time)
      end_conflicts == {w.ends[i][2] : i \in (l_boundary_ends + 1)..Len(w.ends)}
      time_conflicts ==
        {x \in start_conflicts : \E y \in end_conflicts : y.pk = x.pk}
  IN {[task |-> x.task, start_time |-> x.start_time, end_time |-> x.end_time,
       weekdays |-> instance.days \cap x.days] :
        x \in {y \in time_conflicts : instance.days \cap y.days # {}}}

\* _check_conflict with both lists cut as for closed intervals: a window that
\* ends when the schedule starts, or starts when it ends, is a hit
check_conflict_closed_intervals(w, instance) ==
  LET r_boundary_starts == bisect_right(w.starts, instance.end_time)
      start_conflicts == {w.starts[i][2] : i \in 1..r_boundary_starts}
      l_boundary_ends == bisect_left(w.ends, instance.start_time)
      end_conflicts == {w.ends[i][2] : i \in (l_boundary_ends + 1)..Len(w.ends)}
      time_conflicts ==
        {x \in start_conflicts : \E y \in end_conflicts : y.pk = x.pk}
  IN {[task |-> x.task, start_time |-> x.start_time, end_time |-> x.end_time,
       weekdays |-> instance.days \cap x.days] :
        x \in {y \in time_conflicts : instance.days \cap y.days # {}}}

\* _check_conflict reporting every weekday of the tested schedule, the days
\* the indexed window lacks among them
check_conflict_reports_own_days(w, instance) ==
  LET r_boundary_starts == bisect_left(w.starts, instance.end_time)
      start_conflicts == {w.starts[i][2] : i \in 1..r_boundary_starts}
      l_boundary_ends == bisect_right(w.ends, instance.start_time)
      end_conflicts == {w.ends[i][2] : i \in (l_boundary_ends + 1)..Len(w.ends)}
      time_conflicts ==
        {x \in start_conflicts : \E y \in end_conflicts : y.pk = x.pk}
  IN {[task |-> x.task, start_time |-> x.start_time, end_time |-> x.end_time,
       weekdays |-> instance.days] :
        x \in {y \in time_conflicts : instance.days \cap y.days # {}}}

\* the ScheduleConflict values _check_conflict may return for a schedule
\* (the empty set: it returns None); it returns the first hit of a set iteration
check_conflict(w, instance) ==
  LET r_boundary_starts == bisect_left(w.starts, instance.end_time)
      start_conflicts == {w.starts[i][2] : i \in 1..r_boundary_starts}
      l_boundary_ends == bisect_right(w.ends, instance.start_time)
      end_conflicts == {w.ends[i][2] : i \in (l_boundary_ends + 1)..Len(w.ends)}
      time_conflicts ==
        {x \in start_conflicts : \E y \in end_conflicts : y.pk = x.pk}
  IN {[task |-> x.task, start_time |-> x.start_time, end_time |-> x.end_time,
       weekdays |-> instance.days \cap x.days] :
        x \in {y \in time_conflicts : instance.days \cap y.days # {}}}

\* _remove_schedule finding its entry by the time alone
remove_schedule_by_time(w, instance) ==
  LET First(list, key) ==
        CHOOSE i \in 1..Len(list) :
          list[i][1] = key /\ \A j \in 1..(i - 1) : list[j][1] # key
      Drop(list, i) == SubSeq(list, 1, i - 1) \o SubSeq(list, i + 1, Len(list))
  IN [w EXCEPT
        !.starts = Drop(w.starts, First(w.starts, instance.start_time)),
        !.ends = Drop(w.ends, First(w.ends, instance.end_time))]

add_schedule(w, instance) ==
  [w EXCEPT !.starts = SortedAdd(w.starts, <<instance.start_time, instance>>),
            !.ends = SortedAdd(w.ends, <<instance.end_time, instance>>)]

\* ValueError from _starts.remove leaves both lists as they are; ValueError
\* from _ends.remove leaves the entry removed from _starts only
remove_schedule(w, instance) ==
  LET s == <<instance.start_time, instance>>
      e == <<instance.end_time, instance>>
  IN IF Matches(w.starts, s) = {} THEN Raise(w, ValueError)
     ELSE IF Matches(w.ends, e) = {}
       THEN Raise([w EXCEPT !.starts = SortedRemove(w.starts, s)], ValueError)
     ELSE [w EXCEPT !.starts = SortedRemove(w.starts, s),
                    !.ends = SortedRemove(w.ends, e)]

RECURSIVE AddEach(_, _, _)
AddEach(w, list, k) ==
  IF k > Len(list) THEN w ELSE AddEach(add_schedule(w, list[k]), list, k + 1)

RECURSIVE RemoveEach(_, _, _)
RemoveEach(w, list, k) ==
  IF k > Len(list) \/ w.result # OK THEN w
  ELSE RemoveEach(remove_schedule(w, list[k]), list, k + 1)

\* add_task_schedules adding each schedule as soon as it passed its own check
add_task_schedules_as_checked(w, t) ==
  LET list == task_schedules(w, t)
      conflicts == {k \in 1..Len(list) : check_conflict(w, list[k]) # {}}
      passed == SelectSeq(list, LAMBDA x : check_conflict(w, x) = {})
  IN IF Len(list) = 0 THEN Raise(w, MissingSchedules)
     ELSE IF conflicts # {} THEN Raise(AddEach(w, passed, 1), ScheduleConflictCode)
     ELSE AddEach(w, list, 1)

\* add_task_schedules without the test for an empty schedule list
add_task_schedules_allows_none(w, t) ==
  LET list == task_schedules(w, t)
      conflicts == {k \in 1..Len(list) : check_conflict(w, list[k]) # {}}
  IN IF conflicts # {} THEN Raise(w, ScheduleConflictCode)
     ELSE AddEach(w, list, 1)

\* add_task_schedules testing each schedule against the index and the
\* schedules of the same task tested before it
RECURSIVE CheckWithOwn(_, _, _, _)
CheckWithOwn(w, tested, list, k) ==
  IF k > Len(list) THEN AddEach(w, list, 1)
  ELSE IF check_conflict(tested, list[k]) # {} THEN Raise(w, ScheduleConflictCode)
  ELSE CheckWithOwn(w, add_schedule(tested, list[k]), list, k + 1)

add_task_schedules_checks_own(w, t) ==
  LET list == task_schedules(w, t)
  IN IF Len(list) = 0 THEN Raise(w, MissingSchedules)
     ELSE CheckWithOwn(w, w, list, 1)

add_task_schedules(w, t) ==
  LET list == task_schedules(w, t)
      conflicts == {k \in 1..Len(list) : check_conflict(w, list[k]) # {}}
  IN IF Len(list) = 0 THEN Raise(w, MissingSchedules)
     ELSE IF conflicts # {} THEN Raise(w, ScheduleConflictCode)
     ELSE AddEach(w, list, 1)

\* remove_task_schedules without the test for an empty schedule list
remove_task_schedules_allows_none(w, t) ==
  RemoveEach(w, task_schedules(w, t), 1)

\* remove_task_schedules leaving its loop after the first schedule
remove_task_schedules_first_only(w, t) ==
  LET list == task_schedules(w, t)
  IN IF Len(list) = 0 THEN Raise(w, LogicError)
     ELSE remove_schedule(w, list[1])

remove_task_schedules(w, t) ==
  LET list == task_schedules(w, t)
  IN IF Len(list) = 0 THEN Raise(w, LogicError)
     ELSE RemoveEach(w, list, 1)

\* _start_service adding to the lists it finds instead of new ones
start_service_keeps_entries(w) ==
  AddEach(w, active_schedules(w), 1)

\* _start_service: both lists rebuilt from the rows of ACTIVE tasks
start_service(w) ==
  AddEach([w EXCEPT !.starts = <<>>, !.ends = <<>>], active_schedules(w), 1)

restart_service(w) == start_service(w)

(* --------------------------- task_service.py -------------------------- *)
\* _check_state_at_creation accepting whatever state the client sent
check_state_at_creation_accepts_any(w, state) == w

check_state_at_creation(w, state) ==
  IF state = NoState THEN w
  ELSE IF state # PLANNED THEN Raise(w, InvalidCreationState)
  ELSE w

\* serializer.save() of a new Task: Task.state defaults to get_state_at_creation
create_task(w, pk, state) ==
  LET checked == check_state_at_creation(w, state)
  IN IF checked.result # OK THEN checked
     ELSE [w EXCEPT !.tasks =
             [x \in DOMAIN w.tasks \cup {pk} |->
                IF x = pk
                  THEN (IF state = NoState THEN get_state_at_creation ELSE state)
                  ELSE w.tasks[x]]]

\* remove_task deleting a task by force without a look at the index
remove_task_force_skips_index(w, t, force) ==
  IF ~force /\ ~(w.tasks[t] \in {PLANNED, FINISHED, ARCHIVED})
    THEN Raise(w, DeleteConflict)
  ELSE IF force THEN DeleteTaskRow(w, t)
  ELSE LET removed == IF w.tasks[t] = ACTIVE
                        THEN remove_task_schedules(w, t) ELSE w
       IN IF removed.result # OK THEN removed ELSE DeleteTaskRow(removed, t)

\* remove_task refusing the unforced delete of an ACTIVE task only
remove_task_refuses_active_only(w, t, force) ==
  IF ~force /\ w.tasks[t] = ACTIVE
    THEN Raise(w, DeleteConflict)
  ELSE LET removed == IF w.tasks[t] = ACTIVE
                        THEN remove_task_schedules(w, t) ELSE w
       IN IF removed.result # OK THEN removed ELSE DeleteTaskRow(removed, t)

remove_task(w, t, force) ==
  IF ~force /\ ~(w.tasks[t] \in {PLANNED, FINISHED, ARCHIVED})
    THEN Raise(w, DeleteConflict)
  ELSE LET removed == IF w.tasks[t] = ACTIVE
                        THEN remove_task_schedules(w, t) ELSE w
       IN IF removed.result # OK THEN removed ELSE DeleteTaskRow(removed, t)

\* set_state_active saving ACTIVE for a task that has no schedule
set_state_active_without_schedules(w, t) ==
  IF ~(w.tasks[t] \in {PLANNED, PAUSED}) THEN Raise(w, LogicError)
  ELSE LET added == IF Len(task_schedules(w, t)) = 0
                      THEN w ELSE add_task_schedules(w, t)
       IN IF added.result # OK THEN added ELSE SaveState(added, t, ACTIVE)

\* set_state_active taking a PAUSED task's schedules as checked when it was
\* first activated
set_state_active_trusts_paused(w, t) ==
  IF ~(w.tasks[t] \in {PLANNED, PAUSED}) THEN Raise(w, LogicError)
  ELSE LET added == IF w.tasks[t] = PAUSED
                      THEN AddEach(w, task_schedules(w, t), 1)
                      ELSE add_task_schedules(w, t)
       IN IF added.result # OK THEN added ELSE SaveState(added, t, ACTIVE)

\* set_state_active without the test of the state the task is in
set_state_active_unguarded(w, t) ==
  LET added == add_task_schedules(w, t)
  IN IF added.result # OK THEN added ELSE SaveState(added, t, ACTIVE)

set_state_active(w, t) ==
  IF ~(w.tasks[t] \in {PLANNED, PAUSED}) THEN Raise(w, LogicError)
  ELSE LET added == add_task_schedules(w, t)
       IN IF added.result # OK THEN added ELSE SaveState(added, t, ACTIVE)

\* set_state_paused saving the state without touching the index
set_state_paused_keeps_index(w, t) ==
  IF w.tasks[t] # ACTIVE THEN Raise(w, LogicError)
  ELSE SaveState(w, t, PAUSED)

\* set_state_paused deleting the persisted schedules as set_state_finished does
set_state_paused_deletes_rows(w, t) ==
  IF w.tasks[t] # ACTIVE THEN Raise(w, LogicError)
  ELSE LET removed == remove_task_schedules(w, t)
       IN IF removed.result # OK THEN removed
          ELSE SaveState(DeleteScheduleRows(removed, t), t, PAUSED)

set_state_paused(w, t) ==
  IF w.tasks[t] # ACTIVE THEN Raise(w, LogicError)
  ELSE LET removed == remove_task_schedules(w, t)
       IN IF removed.result # OK THEN removed ELSE SaveState(removed, t, PAUSED)

\* set_state_finished leaving the index entries of an ACTIVE task in place
set_state_finished_keeps_index(w, t) ==
  IF ~(w.tasks[t] \in {ACTIVE, PAUSED, ARCHIVED}) THEN Raise(w, LogicError)
  ELSE IF w.tasks[t] \in {ACTIVE, PAUSED}
    THEN SaveState(DeleteScheduleRows(w, t), t, FINISHED)
  ELSE SaveState(w, t, FINISHED)

\* set_state_finished taking the schedules out of the index whatever the state
\* the task comes from
set_state_finished_always_unindexes(w, t) ==
  IF ~(w.tasks[t] \in {ACTIVE, PAUSED, ARCHIVED}) THEN Raise(w, LogicError)
  ELSE LET removed == remove_task_schedules(w, t)
       IN IF removed.result # OK THEN removed
          ELSE SaveState(DeleteScheduleRows(removed, t), t, FINISHED)

\* set_state_finished accepting an ACTIVE or ARCHIVED task, not a PAUSED one
set_state_finished_refuses_paused(w, t) ==
  IF ~(w.tasks[t] \in {ACTIVE, ARCHIVED}) THEN Raise(w, LogicError)
  ELSE IF w.tasks[t] = ACTIVE
    THEN LET removed == remove_task_schedules(w, t)
         IN IF removed.result # OK THEN removed
            ELSE SaveState(DeleteScheduleRows(removed, t), t, FINISHED)
  ELSE SaveState(w, t, FINISHED)

set_state_finished(w, t) ==
  IF ~(w.tasks[t] \in {ACTIVE, PAUSED, ARCHIVED}) THEN Raise(w, LogicError)
  ELSE IF w.tasks[t] = ACTIVE
    THEN LET removed == remove_task_schedules(w, t)
         IN IF removed.result # OK THEN removed
            ELSE SaveState(DeleteScheduleRows(removed, t), t, FINISHED)
  ELSE IF w.tasks[t] = PAUSED
    THEN SaveState(DeleteScheduleRows(w, t), t, FINISHED)
  ELSE SaveState(w, t, FINISHED)

set_state_archived(w, t) ==
  IF w.tasks[t] # FINISHED THEN Raise(w, LogicError)
  ELSE SaveState(w, t, ARCHIVED)

\* _check_and_update_state with (PLANNED, FINISHED) among the finishing cases
check_and_update_state_finishes_planned(w, t, new_state) ==
  LET current_state == w.tasks[t]
  IN IF current_state = new_state THEN SaveState(w, t, current_state)
     ELSE IF <<current_state, new_state>> \in
               {<<PLANNED, ACTIVE>>, <<PAUSED, ACTIVE>>}
       THEN set_state_active(w, t)
     ELSE IF <<current_state, new_state>> = <<ACTIVE, PAUSED>>
       THEN set_state_paused(w, t)
     ELSE IF <<current_state, new_state>> \in
               {<<ACTIVE, FINISHED>>, <<PAUSED, FINISHED>>,
                <<ARCHIVED, FINISHED>>, <<PLANNED, FINISHED>>}
       THEN set_state_finished(w, t)
     ELSE IF <<current_state, new_state>> = <<FINISHED, ARCHIVED>>
       THEN set_state_archived(w, t)
     ELSE Raise(w, InvalidTransition)

\* _check_and_update_state without the case of an unchanged state
check_and_update_state_without_same_state(w, t, new_state) ==
  LET current_state == w.tasks[t]
  IN IF <<current_state, new_state>> \in
          {<<PLANNED, ACTIVE>>, <<PAUSED, ACTIVE>>}
       THEN set_state_active(w, t)
     ELSE IF <<current_state, new_state>> = <<ACTIVE, PAUSED>>
       THEN set_state_paused(w, t)
     ELSE IF <<current_state, new_state>> \in
               {<<ACTIVE, FINISHED>>, <<PAUSED, FINISHED>>, <<ARCHIVED, FINISHED>>}
       THEN set_state_finished(w, t)
     ELSE IF <<current_state, new_state>> = <<FINISHED, ARCHIVED>>
       THEN set_state_archived(w, t)
     ELSE Raise(w, InvalidTransition)

\* _check_and_update_state with a case that takes a PAUSED or FINISHED task
\* back to PLANNED
check_and_update_state_replans(w, t, new_state) ==
  LET current_state == w.tasks[t]
  IN IF current_state = new_state THEN SaveState(w, t, current_state)
     ELSE IF <<current_state, new_state>> \in
               {<<PLANNED, ACTIVE>>, <<PAUSED, ACTIVE>>}
       THEN set_state_active(w, t)
     ELSE IF <<current_state, new_state>> = <<ACTIVE, PAUSED>>
       THEN set_state_paused(w, t)
     ELSE IF <<current_state, new_state>> \in
               {<<ACTIVE, FINISHED>>, <<PAUSED, FINISHED>>, <<ARCHIVED, FINISHED>>}
       THEN set_state_finished(w, t)
     ELSE IF <<current_state, new_state>> = <<FINISHED, ARCHIVED>>
       THEN set_state_archived(w, t)
     ELSE IF <<current_state, new_state>> \in
               {<<PAUSED, PLANNED>>, <<FINISHED, PLANNED>>}
       THEN SaveState(w, t, PLANNED)
     ELSE Raise(w, InvalidTransition)

\* the match statement of _check_and_update_state, case by case
check_and_update_state(w, t, new_state) ==
  LET current_state == w.tasks[t]
  IN IF current_state = new_state THEN SaveState(w, t, current_state)
     ELSE IF <<current_state, new_state>> \in
               {<<PLANNED, ACTIVE>>, <<PAUSED, ACTIVE>>}
       THEN set_state_active(w, t)
     ELSE IF <<current_state, new_state>> = <<ACTIVE, PAUSED>>
       THEN set_state_paused(w, t)
     ELSE IF <<current_state, new_state>> \in
               {<<ACTIVE, FINISHED>>, <<PAUSED, FINISHED>>, <<ARCHIVED, FINISHED>>}
       THEN set_state_finished(w, t)
     ELSE IF <<current_state, new_state>> = <<FINISHED, ARCHIVED>>
       THEN set_state_archived(w, t)
     ELSE Raise(w, InvalidTransition)

\* update_task taking the current state for a missing one whatever the method
update_task_keeps_state(w, t, request_method, state) ==
  LET new_state == IF state = NoState THEN w.tasks[t] ELSE state
  IN check_and_update_state(w, t, new_state)

\* a request without a state asks for the current state when it is a PATCH and
\* for Task.state.field.default otherwise
update_task(w, t, request_method, state) ==
  LET alternative_state ==
        IF request_method = "PATCH" THEN w.tasks[t] ELSE get_state_at_creation
      new_state == IF state = NoState THEN alternative_state ELSE state
  IN check_and_update_state(w, t, new_state)

RECURSIVE PauseEach(_, _, _)
PauseEach(w, list, k) ==
  IF k > Len(list) \/ w.result # OK THEN w
  ELSE PauseEach(set_state_paused(w, list[k]), list, k + 1)

\* pause_all_tasks leaving its loop after the first ACTIVE task
pause_all_tasks_first_only(w) ==
  LET list == SortedSeq({t \in DOMAIN w.tasks : w.tasks[t] = ACTIVE})
  IN IF Len(list) = 0 THEN w ELSE set_state_paused(w, list[1])

pause_all_tasks(w) ==
  PauseEach(w, SortedSeq({t \in DOMAIN w.tasks : w.tasks[t] = ACTIVE}), 1)

RECURSIVE RemoveEachTask(_, _, _)
RemoveEachTask(w, list, k) ==
  IF k > Len(list) \/ w.result # OK THEN w
  ELSE RemoveEachTask(remove_task(w, list[k], TRUE), list, k + 1)

\* remove_all_tasks refusing for ACTIVE tasks only
remove_all_tasks_checks_active_only(w, force) ==
  LET all_tasks == SortedSeq(DOMAIN w.tasks)
      active_tasks == {t \in DOMAIN w.tasks : w.tasks[t] = ACTIVE}
  IN IF active_tasks # {} /\ ~force
       THEN Raise(w, DeleteConflict)
     ELSE LET removed == RemoveEachTask(w, all_tasks, 1)
          IN IF removed.result # OK THEN removed ELSE restart_service(removed)

\* remove_all_tasks deleting the rows in bulk, the index left to itself
remove_all_tasks_bulk_delete(w, force) ==
  LET paused_tasks == {t \in DOMAIN w.tasks : w.tasks[t] = PAUSED}
      active_tasks == {t \in DOMAIN w.tasks : w.tasks[t] = ACTIVE}
  IN IF (paused_tasks # {} \/ active_tasks # {}) /\ ~force
       THEN Raise(w, DeleteConflict)
     ELSE [w EXCEPT !.tasks = <<>>, !.schedules = <<>>]

remove_all_tasks(w, force) ==
  LET all_tasks == SortedSeq(DOMAIN w.tasks)
      paused_tasks == {t \in DOMAIN w.tasks : w.tasks[t] = PAUSED}
      active_tasks == {t \in DOMAIN w.tasks : w.tasks[t] = ACTIVE}
  IN IF (paused_tasks # {} \/ active_tasks # {}) /\ ~force
       THEN Raise(w, DeleteConflict)
     ELSE LET removed == RemoveEachTask(w, all_tasks, 1)
          IN IF removed.result # OK THEN removed ELSE restart_service(removed)

(* ------------------------ schedule rows (views.py) -------------------- *)
\* ScheduleViewSet.create on a table without the CheckConstraints
schedule_create_unconstrained(w, pk, t, start_time, end_time, days) ==
  [w EXCEPT !.schedules =
     [x \in DOMAIN w.schedules \cup {pk} |->
        IF x = pk
          THEN [task |-> t, start_time |-> start_time,
                end_time |-> end_time, days |-> days]
          ELSE w.schedules[x]]]

\* ScheduleViewSet.create: the row is stored unless a CheckConstraint rejects it
schedule_create(w, pk, t, start_time, end_time, days) ==
  IF ~ScheduleConstraints(start_time, end_time, days)
    THEN Raise(w, IntegrityError)
  ELSE [w EXCEPT !.schedules =
          [x \in DOMAIN w.schedules \cup {pk} |->
             IF x = pk
               THEN [task |-> t, start_time |-> start_time,
                     end_time |-> end_time, days |-> days]
               ELSE w.schedules[x]]]

\* ScheduleViewSet.update: the row takes the new times and weekdays unless a
\* CheckConstraint rejects them; the index is not consulted
schedule_update(w, pk, start_time, end_time, days) ==
  IF ~ScheduleConstraints(start_time, end_time, days)
    THEN Raise(w, IntegrityError)
  ELSE [w EXCEPT !.schedules[pk] =
          [task |-> w.schedules[pk].task, start_time |-> start_time,
           end_time |-> end_time, days |-> days]]

\* ScheduleViewSet.destroy: the row is deleted; the index is not consulted
schedule_destroy(w, pk) ==
  [w EXCEPT !.schedules = [x \in DOMAIN w.schedules \ {pk} |-> w.schedules[x]]]

(* ------------------------------ the system ---------------------------- *)
\* the process starts on an empty database: _start_service finds no rows
Init ==
  /\ tasks = <<>>
  /\ schedules = <<>>
  /\ starts = <<>>
  /\ ends = <<>>
  /\ nextTask = 1
  /\ nextSchedule = 1
  /\ requests = [th \in Threads |-> Idle]

\* what a request leaves behind, whether it returned or raised
Commit(w) ==
  /\ tasks' = w.tasks
  /\ schedules' = w.schedules
  /\ starts' = w.starts
  /\ ends' = w.ends

RowsInserted == (nextTask - 1) + (nextSchedule - 1)

\* TaskViewSet.create
CreateTask ==
  \E state \in TaskState \cup {NoState} :
    LET w == create_task(World, nextTask, state)
    IN /\ RowsInserted < MaxRows
       /\ Commit(w)
       /\ nextTask' = IF w.result = OK THEN nextTask + 1 ELSE nextTask
       /\ UNCHANGED <<nextSchedule, requests>>

\* TaskViewSet.destroy (force=False) and TaskService.remove_task(force=True)
DeleteTask ==
  \E t \in DOMAIN tasks, force \in BOOLEAN :
    /\ Commit(remove_task(World, t, force))
    /\ UNCHANGED <<nextTask, nextSchedule, requests>>

\* TaskViewSet.update (PUT) and partial_update (PATCH)
UpdateTask ==
  \E t \in DOMAIN tasks, request_method \in {"PUT", "PATCH"},
     state \in TaskState \cup {NoState} :
    /\ Commit(update_task(World, t, request_method, state))
    /\ UNCHANGED <<nextTask, nextSchedule, requests>>

PauseAllTasks ==
  /\ Commit(pause_all_tasks(World))
  /\ UNCHANGED <<nextTask, nextSchedule, requests>>

RemoveAllTasks ==
  \E force \in BOOLEAN :
    /\ Commit(remove_all_tasks(World, force))
    /\ UNCHANGED <<nextTask, nextSchedule, requests>>

\* ScheduleViewSet.create, for a task that is not ACTIVE
CreateSchedule ==
  \E t \in DOMAIN tasks, window \in Windows :
    LET w == schedule_create(World, nextSchedule, t, window.start_time,
                             window.end_time, window.days)
    IN /\ RowsInserted < MaxRows
       /\ tasks[t] # ACTIVE
       /\ Commit(w)
       /\ nextSchedule' = IF w.result = OK THEN nextSchedule + 1 ELSE nextSchedule
       /\ UNCHANGED <<nextTask, requests>>

Next ==
  \/ CreateTask
  \/ DeleteTask
  \/ UpdateTask
  \/ PauseAllTasks
  \/ RemoveAllTasks
  \/ CreateSchedule

\* the lifecycle requests; schedule rows are inserted while their task is not
\* ACTIVE, and deleted by the lifecycle only
Spec == Init /\ [][Next]_vars

(* ----------------- schedule requests for ACTIVE tasks ---------------- *)
\* ScheduleViewSet.create for an ACTIVE task
CreateScheduleOfActive ==
  \E t \in DOMAIN tasks, window \in Windows :
    LET w == schedule_create(World, nextSchedule, t, window.start_time,
                             window.end_time, window.days)
    IN /\ RowsInserted < MaxRows
       /\ RowsInserted <= MaxFaultRows
       /\ tasks[t] = ACTIVE
       /\ Commit(w)
       /\ nextSchedule' = IF w.result = OK THEN nextSchedule + 1 ELSE nextSchedule
       /\ UNCHANGED <<nextTask, requests>>

\* ScheduleViewSet.update of a schedule of an ACTIVE task
UpdateSchedule ==
  \E pk \in DOMAIN schedules, window \in Windows :
    /\ tasks[schedules[pk].task] = ACTIVE
    /\ RowsInserted <= MaxFaultRows
    /\ Commit(schedule_update(World, pk, window.start_time, window.end_time,
                              window.days))
    /\ UNCHANGED <<nextTask, nextSchedule, requests>>

\* ScheduleViewSet.destroy of a schedule of an ACTIVE task
DestroySchedule ==
  \E pk \in DOMAIN schedules :
    /\ tasks[schedules[pk].task] = ACTIVE
    /\ RowsInserted <= MaxFaultRows
    /\ Commit(schedule_destroy(World, pk))
    /\ UNCHANGED <<nextTask, nextSchedule, requests>>

\* the process starts again on the database as it is, or restart_service runs
RestartService ==
  /\ Commit(restart_service(World))
  /\ UNCHANGED <<nextTask, nextSchedule, requests>>

NextCrud ==
  \/ Next
  \/ CreateScheduleOfActive
  \/ UpdateSchedule
  \/ DestroySchedule
  \/ RestartService

\* the lifecycle requests together with the requests of ScheduleViewSet for
\* the schedules of ACTIVE tasks, and the restart of the service
SpecCrud == Init /\ [][NextCrud]_vars

(* ------------------------- a save that raises ------------------------- *)
\* TaskViewSet.update whose serializer.save() raises a database error
UpdateTaskSaveRaises ==
  \E t \in DOMAIN tasks, request_method \in {"PUT", "PATCH"},
     state \in TaskState \cup {NoState} :
    /\ RowsInserted <= MaxFaultRows
    /\ Commit(update_task(WorldSaveRaises, t, request_method, state))
    /\ UNCHANGED <<nextTask, nextSchedule, requests>>

NextSaveRaises ==
  \/ Next
  \/ UpdateTaskSaveRaises

\* the lifecycle requests, the save of some of them raising
SpecSaveRaises == Init /\ [][NextSaveRaises]_vars

(* ------------------- activations on several threads ------------------- *)
\* set_state_active entered on a thread: the task is PLANNED or PAUSED, and
\* add_task_schedules has read the task's schedules and found some
BeginActivation(th) ==
  \E t \in DOMAIN tasks :
    /\ requests[th].pc = "idle"
    /\ tasks[t] \in {PLANNED, PAUSED}
    /\ Len(task_schedules(World, t)) > 0
    /\ requests' = [requests EXCEPT ![th] =
                      [pc |-> "check", task |-> t,
                       task_schedules |-> task_schedules(World, t), k |-> 1,
                       conflicts |-> FALSE]]
    /\ UNCHANGED <<tasks, schedules, starts, ends, nextTask, nextSchedule>>

\* one turn of the loop over _check_conflict; after the last turn the
\* exception is raised if any turn found a conflict
CheckConflict(th) ==
  LET r == requests[th]
      conflicts ==
        r.conflicts \/ check_conflict(World, r.task_schedules[r.k]) # {}
  IN /\ r.pc = "check"
     /\ requests' = [requests EXCEPT ![th] =
                       IF r.k < Len(r.task_schedules)
                       THEN [r EXCEPT !.k = r.k + 1, !.conflicts = conflicts]
                       ELSE IF conflicts THEN Idle
                       ELSE [r EXCEPT !.pc = "add_starts", !.k = 1]]
     /\ UNCHANGED <<tasks, schedules, starts, ends, nextTask, nextSchedule>>

\* _add_schedule: self._starts.add
AddStart(th) ==
  LET r == requests[th]
      instance == r.task_schedules[r.k]
  IN /\ r.pc = "add_starts"
     /\ starts' = SortedAdd(starts, <<instance.start_time, instance>>)
     /\ requests' = [requests EXCEPT ![th].pc = "add_ends"]
     /\ UNCHANGED <<tasks, schedules, ends, nextTask, nextSchedule>>

\* _add_schedule: self._ends.add, and the next turn of the loop
AddEnd(th) ==
  LET r == requests[th]
      instance == r.task_schedules[r.k]
  IN /\ r.pc = "add_ends"
     /\ ends' = SortedAdd(ends, <<instance.end_time, instance>>)
     /\ requests' = [requests EXCEPT ![th] =
                       IF r.k < Len(r.task_schedules)
                       THEN [r EXCEPT !.pc = "add_starts", !.k = r.k + 1]
                       ELSE [r EXCEPT !.pc = "save"]]
     /\ UNCHANGED <<tasks, schedules, starts, nextTask, nextSchedule>>

\* set_state_active: the save that makes the task ACTIVE
SaveActive(th) ==
  LET r == requests[th]
  IN /\ r.pc = "save"
     /\ tasks' = [tasks EXCEPT ![r.task] = ACTIVE]
     /\ requests' = [requests EXCEPT ![th] = Idle]
     /\ UNCHANGED <<schedules, starts, ends, nextTask, nextSchedule>>

NextThreads ==
  \/ CreateTask
  \/ CreateSchedule
  \/ \E th \in Threads : BeginActivation(th)
  \/ \E th \in Threads : CheckConflict(th)
  \/ \E th \in Threads : AddStart(th)
  \/ \E th \in Threads : AddEnd(th)
  \/ \E th \in Threads : SaveActive(th)

\* tasks and schedules are created, and tasks are activated by requests
\* that run on two threads, a thread being switched between any two steps
SpecThreads == Init /\ [][NextThreads]_vars

(* ------------------------ vocabulary of the claims -------------------- *)
RequestMethods == {"PUT", "PATCH"}

\* the schedules an index list holds
Entries(list) == {list[i][2] : i \in 1..Len(list)}
EntryPks(list) == {list[i][2].pk : i \in 1..Len(list)}

\* the persisted schedules of task t
TaskRows(t) ==
  {ScheduleObj(World, pk) : pk \in {p \in DOMAIN schedules : schedules[p].task = t}}

\* two windows overlap in time and share a weekday
Overlap(a, b) == a.start_time < b.end_time /\ b.start_time < a.end_time
Collide(a, b) == Overlap(a, b) /\ a.days \cap b.days # {}

\* an index list without the entries of task t, the others in place
WithoutTask(list, t) ==
  LET Other(entry) == entry[2].task # t IN SelectSeq(list, Other)

IsActive(t) == t \in DOMAIN tasks /\ tasks[t] = ACTIVE

(* -------------------------------- C1 ---------------------------------- *)
\* C1: the index never holds two schedules of different ACTIVE tasks that
\* overlap in time and share a weekday, and the activation of a task one of
\* whose windows collides with an indexed window of another ACTIVE task is
\* rejected with the schedule conflict.
NoConflictingActiveWindows ==
  /\ \A a \in Entries(starts) \cup Entries(ends),
        b \in Entries(starts) \cup Entries(ends) :
       ~(a.task # b.task /\ IsActive(a.task) /\ IsActive(b.task) /\ Collide(a, b))
  /\ \A t \in DOMAIN tasks :
       (/\ tasks[t] \in {PLANNED, PAUSED}
        /\ \E s \in TaskRows(t), x \in Entries(starts) \cup Entries(ends) :
             x.task # t /\ IsActive(x.task) /\ Collide(s, x))
       => \A m \in RequestMethods :
            update_task(World, t, m, ACTIVE).result = ScheduleConflictCode

\* two ACTIVE tasks are indexed with windows that overlap in time
TwoActiveTasksIndexed ==
  \E a \in Entries(starts), b \in Entries(ends) :
    a.task # b.task /\ IsActive(a.task) /\ IsActive(b.task) /\ Overlap(a, b)

(* -------------------------------- C2 ---------------------------------- *)
\* C2: a persisted schedule is in the index (in the start-ordered list and in
\* the end-ordered list) if and only if its owning task is ACTIVE.
IndexedIffActive ==
  \A pk \in DOMAIN schedules :
    /\ pk \in EntryPks(starts) <=> tasks[schedules[pk].task] = ACTIVE
    /\ pk \in EntryPks(ends) <=> tasks[schedules[pk].task] = ACTIVE

\* one task is ACTIVE and indexed while a PAUSED task keeps rows out of the index
ActiveIndexedPausedNot ==
  \E p \in DOMAIN schedules, q \in DOMAIN schedules :
    /\ tasks[schedules[p].task] = ACTIVE /\ p \in EntryPks(starts)
    /\ tasks[schedules[q].task] = PAUSED /\ q \notin EntryPks(starts)

(* -------------------------------- C3 ---------------------------------- *)
AllowedTransitions ==
  {<<PLANNED, ACTIVE>>, <<ACTIVE, PAUSED>>, <<ACTIVE, FINISHED>>,
   <<PAUSED, ACTIVE>>, <<PAUSED, FINISHED>>, <<FINISHED, ARCHIVED>>,
   <<ARCHIVED, FINISHED>>}

\* a request for another state succeeds only for a pair of the table, and
\* fails with the invalid transition, changing nothing, for any other pair
TransitionRequests ==
  \A t \in DOMAIN tasks, m \in RequestMethods :
    \A d \in TaskState \ {tasks[t]} :
      LET r == update_task(World, t, m, d)
      IN /\ r.result = OK => <<tasks[t], d>> \in AllowedTransitions
         /\ <<tasks[t], d>> \notin AllowedTransitions
              => r = Raise(World, InvalidTransition)

\* whatever the request, a task changes state along a pair of the table only
TransitionSteps ==
  \A t \in DOMAIN tasks \cap DOMAIN tasks' :
    tasks'[t] # tasks[t] => <<tasks[t], tasks'[t]>> \in AllowedTransitions

\* C3: a transition to a different state succeeds only for the seven pairs of
\* the transition table; any other pair fails with InvalidTransition and
\* leaves the task's state, the persisted schedules and the index unchanged.
TransitionTable == []TransitionRequests /\ [][TransitionSteps]_vars

\* an ARCHIVED task is asked to become ACTIVE again and is refused
ArchivedRefusedActive ==
  \E t \in DOMAIN tasks :
    /\ tasks[t] = ARCHIVED
    /\ update_task(World, t, "PATCH", ACTIVE).result = InvalidTransition

(* -------------------------------- C4 ---------------------------------- *)
\* C4: when a schedule of the task collides with an entry of the index,
\* add_task_schedules fails with the schedule conflict and leaves both index
\* lists exactly as they were, whatever the task's other schedules; the
\* activation request fails the same way and the task does not become ACTIVE.
AddIsAllOrNothing ==
  \A t \in DOMAIN tasks :
    (\E s \in TaskRows(t), x \in Entries(starts) : Collide(s, x))
    => /\ add_task_schedules(World, t) = Raise(World, ScheduleConflictCode)
       /\ tasks[t] \in {PLANNED, PAUSED}
            => \A m \in RequestMethods :
                 update_task(World, t, m, ACTIVE)
                   = Raise(World, ScheduleConflictCode)

\* a task waiting for activation has one window that collides with the index
\* and another that collides with nothing
OneWindowCollidesOneNot ==
  \E t \in DOMAIN tasks :
    /\ tasks[t] \in {PLANNED, PAUSED}
    /\ \E s \in TaskRows(t) : \E x \in Entries(starts) : Collide(s, x)
    /\ \E s \in TaskRows(t) : \A x \in Entries(starts) : ~Collide(s, x)

(* -------------------------------- C5 ---------------------------------- *)
\* C5: requesting ACTIVE for a PLANNED task without persisted schedules fails
\* with MissingSchedules; the task stays PLANNED and the index is unchanged.
ActivationNeedsSchedules ==
  \A t \in DOMAIN tasks :
    tasks[t] = PLANNED /\ TaskRows(t) = {}
    => \A m \in RequestMethods :
         update_task(World, t, m, ACTIVE) = Raise(World, MissingSchedules)

\* a PLANNED task has no schedule while another task fills the index
PlannedWithoutSchedules ==
  \E t \in DOMAIN tasks :
    /\ tasks[t] = PLANNED /\ TaskRows(t) = {}
    /\ starts # <<>>
    /\ update_task(World, t, "PUT", ACTIVE).result = MissingSchedules

SameStateIsNoOp ==
  \A t \in DOMAIN tasks, m \in RequestMethods :
    update_task(World, t, m, tasks[t]) = World

\* an ACTIVE, indexed task is asked to become ACTIVE
ActiveAskedActive ==
  \E t \in DOMAIN tasks :
    /\ tasks[t] = ACTIVE /\ t \in {e.task : e \in Entries(starts)}
    /\ update_task(World, t, "PATCH", ACTIVE).result = OK

(* -------------------------------- C8 ---------------------------------- *)
\* a creation request without a state or with PLANNED stores a PLANNED task,
\* one with any other state fails with InvalidCreationState and stores nothing
CreationRequests ==
  \A state \in TaskState \cup {NoState} :
    LET r == create_task(World, nextTask, state)
    IN IF state \in {NoState, PLANNED}
         THEN /\ r.result = OK
              /\ DOMAIN r.tasks = DOMAIN tasks \cup {nextTask}
              /\ r.tasks[nextTask] = PLANNED
              /\ \A t \in DOMAIN tasks : r.tasks[t] = tasks[t]
              /\ r.schedules = schedules /\ r.starts = starts /\ r.ends = ends
         ELSE r = Raise(World, InvalidCreationState)

\* a task that appears is PLANNED, and the index is as before
CreationSteps ==
  \A t \in DOMAIN tasks' \ DOMAIN tasks :
    tasks'[t] = PLANNED /\ starts' = starts /\ ends' = ends

\* C8: createTask with no state or PLANNED creates a PLANNED task, with any
\* other state it fails with InvalidCreationState and creates nothing; the
\* index is unchanged either way, and every task starts its life PLANNED.
CreationState == []CreationRequests /\ [][CreationSteps]_vars

\* a task was created next to an ACTIVE one, and a creation in ACTIVE is refused
CreatedBesideActive ==
  /\ \E t \in DOMAIN tasks, u \in DOMAIN tasks :
       tasks[t] = PLANNED /\ tasks[u] = ACTIVE /\ u < t
  /\ create_task(World, nextTask, ACTIVE).result = InvalidCreationState

(* -------------------------------- C9 ---------------------------------- *)
\* C9: deleteTask without force deletes a PLANNED, FINISHED or ARCHIVED task
\* and fails with DeleteConflict for an ACTIVE or PAUSED one, leaving the
\* task, its state, its schedules and the index unchanged.
UnforcedDelete ==
  \A t \in DOMAIN tasks :
    LET r == remove_task(World, t, FALSE)
    IN IF tasks[t] \in {PLANNED, FINISHED, ARCHIVED}
         THEN r.result = OK /\ t \notin DOMAIN r.tasks
         ELSE r = Raise(World, DeleteConflict)

\* a task has been deleted, and the delete of a PAUSED task is refused
DeletedOneRefusedOne ==
  /\ Cardinality(DOMAIN tasks) < nextTask - 1
  /\ \E t \in DOMAIN tasks :
       tasks[t] = PAUSED /\ remove_task(World, t, FALSE).result = DeleteConflict

(* -------------------------------- C10 --------------------------------- *)
\* C10: ACTIVE -> PAUSED removes the task's schedules, and only those, from
\* both index lists, the entries of the other tasks staying in place, and
\* leaves every persisted schedule row as it was.
PauseRemovesOwnEntries ==
  \A t \in DOMAIN tasks :
    tasks[t] = ACTIVE
    => \A m \in RequestMethods :
         LET r == update_task(World, t, m, PAUSED)
         IN /\ r.result = OK
            /\ r.tasks = [tasks EXCEPT ![t] = PAUSED]
            /\ r.starts = WithoutTask(starts, t)
            /\ r.ends = WithoutTask(ends, t)
            /\ r.schedules = schedules

\* two ACTIVE tasks hold index entries with the same start time
ActiveTasksShareStartTime ==
  \E i \in 1..Len(starts), j \in 1..Len(starts) :
    /\ starts[i][2].task # starts[j][2].task
    /\ starts[i][1] = starts[j][1]
    /\ IsActive(starts[i][2].task) /\ IsActive(starts[j][2].task)

(* -------------------------------- C11 --------------------------------- *)
\* C11: a successful transition to FINISHED from ACTIVE or from PAUSED leaves
\* the task without persisted schedules and without index entries: from ACTIVE
\* its entries, and only those, are removed from both lists; from PAUSED both
\* lists stay as they were. The rows of the other tasks are kept.
FinishDropsSchedules ==
  \A t \in DOMAIN tasks :
    tasks[t] \in {ACTIVE, PAUSED}
    => \A m \in RequestMethods :
         LET r == update_task(World, t, m, FINISHED)
         IN r.result = OK
            => /\ r.tasks = [tasks EXCEPT ![t] = FINISHED]
               /\ \A pk \in DOMAIN r.schedules : r.schedules[pk].task # t
               /\ \A pk \in DOMAIN schedules :
                    schedules[pk].task # t
                    => pk \in DOMAIN r.schedules /\ r.schedules[pk] = schedules[pk]
               /\ t \notin {e.task : e \in Entries(r.starts) \cup Entries(r.ends)}
               /\ r.starts = WithoutTask(starts, t)
               /\ r.ends = WithoutTask(ends, t)
               /\ tasks[t] = PAUSED => r.starts = starts /\ r.ends = ends

\* an ACTIVE task and a PAUSED task, each with persisted schedules, can finish
ActiveAndPausedCanFinish ==
  \E t \in DOMAIN tasks, u \in DOMAIN tasks :
    /\ tasks[t] = ACTIVE /\ tasks[u] = PAUSED
    /\ update_task(World, t, "PATCH", FINISHED).result = OK
    /\ update_task(World, u, "PATCH", FINISHED).result = OK
    /\ TaskRows(t) # {} /\ TaskRows(u) # {}

(* -------------------------------- C12 --------------------------------- *)
\* C12: FINISHED -> ARCHIVED and ARCHIVED -> FINISHED change the state of the
\* task and nothing else: the index, the persisted schedules of every task and
\* the states of the other tasks are as before.
ArchiveChangesStateOnly ==
  \A t \in DOMAIN tasks, m \in RequestMethods :
    /\ tasks[t] = FINISHED
         => update_task(World, t, m, ARCHIVED)
              = [World EXCEPT !.tasks = [tasks EXCEPT ![t] = ARCHIVED]]
    /\ tasks[t] = ARCHIVED
         => update_task(World, t, m, FINISHED)
              = [World EXCEPT !.tasks = [tasks EXCEPT ![t] = FINISHED]]

\* a task was archived and can finish again while another task is indexed
ArchivedBesideIndexed ==
  \E t \in DOMAIN tasks :
    /\ tasks[t] = ARCHIVED
    /\ update_task(World, t, "PUT", FINISHED).result = OK
    /\ starts # <<>> /\ schedules # <<>>

(* -------------------------------- C13 --------------------------------- *)
\* C13 (scenario D): a task is activated, paused and activated again, with the
\* same windows and nothing else done to the index in between. Both
\* activations succeed, the pause takes the task's entries out of the index and
\* keeps every persisted schedule, and the second activation leaves both index
\* lists, and the rows, exactly as the first one left them.
ActivatePauseActivate ==
  \A t \in DOMAIN tasks, m \in RequestMethods :
    LET first == update_task(World, t, m, ACTIVE)
        paused == update_task(first, t, m, PAUSED)
        second == update_task(paused, t, m, ACTIVE)
    IN tasks[t] \in {PLANNED, PAUSED} /\ first.result = OK
       => /\ first.tasks[t] = ACTIVE
          /\ paused.result = OK /\ paused.tasks[t] = PAUSED
          /\ paused.schedules = schedules
          /\ paused.starts = starts /\ paused.ends = ends
          /\ second.result = OK
          /\ second.starts = first.starts /\ second.ends = first.ends
          /\ second.tasks = first.tasks /\ second.schedules = first.schedules

\* a task that was activated and paused can be activated again, next to an
\* indexed window of another task that starts when one of its own windows does
PausedTaskCanReturn ==
  \E t \in DOMAIN tasks :
    /\ tasks[t] = PAUSED
    /\ update_task(World, t, "PATCH", ACTIVE).result = OK
    /\ \E s \in TaskRows(t), x \in Entries(starts) :
         x.task # t /\ x.start_time = s.start_time

(* -------------------------------- C14 --------------------------------- *)
\* C14: whenever add_task_schedules(t) succeeds, it puts one entry for each
\* schedule of t into each list, and remove_task_schedules(t) right after it
\* gives back both lists exactly as they were, entry by entry, also when an
\* indexed schedule of another task has the start or the end time of one of t's.
AddThenRemoveRestores ==
  \A t \in DOMAIN tasks :
    LET added == add_task_schedules(World, t)
    IN added.result = OK
       => /\ Len(added.starts) = Len(starts) + Cardinality(TaskRows(t))
          /\ Len(added.ends) = Len(ends) + Cardinality(TaskRows(t))
          /\ TaskRows(t) \subseteq Entries(added.starts) \cap Entries(added.ends)
          /\ remove_task_schedules(added, t) = World

\* a task with two schedules can be added while the index holds a schedule of
\* another task with the same start time as one of them and the same end time
\* as one of them
AddableBesideEqualTimes ==
  \E t \in DOMAIN tasks :
    /\ add_task_schedules(World, t).result = OK
    /\ Cardinality(TaskRows(t)) = 2
    /\ \E s \in TaskRows(t), x \in Entries(starts) :
         x.task # t /\ x.start_time = s.start_time
    /\ \E s \in TaskRows(t), x \in Entries(ends) :
         x.task # t /\ x.end_time = s.end_time

(* -------------------------------- C15 --------------------------------- *)
\* the schedules put to the conflict check: every persisted schedule, and
\* every window that satisfies the constraints as a schedule not yet stored
TestedSchedules ==
  {ScheduleObj(World, pk) : pk \in DOMAIN schedules}
  \cup {[pk |-> 0, task |-> 0, start_time |-> window.start_time,
          end_time |-> window.end_time, days |-> window.days] :
          window \in {x \in Windows :
                        ScheduleConstraints(x.start_time, x.end_time, x.days)}}

\* C15: the conflict check of a schedule S reports a conflict if and only if
\* an indexed schedule X has X.start < S.end, X.end > S.start and a weekday in
\* common with S, and what it may report is one of those X with the common
\* weekdays; when every indexed X only touches S (X.end = S.start or
\* X.start = S.end), lies apart from it, or shares no weekday with it, the
\* check reports nothing.
ConflictIffOverlap ==
  \A S \in TestedSchedules :
    LET hits == {x \in Entries(starts) :
                  /\ x.start_time < S.end_time
                  /\ x.end_time > S.start_time
                  /\ x.days \cap S.days # {}}
    IN /\ check_conflict(World, S) # {} <=> hits # {}
       /\ check_conflict(World, S)
            = {[task |-> x.task, start_time |-> x.start_time,
                end_time |-> x.end_time, weekdays |-> x.days \cap S.days] :
                 x \in hits}
       /\ (\A x \in Entries(starts) \cup Entries(ends) :
             \/ x.end_time <= S.start_time
             \/ x.start_time >= S.end_time
             \/ x.days \cap S.days = {})
            => check_conflict(World, S) = {}

\* a schedule passes the check although one indexed window touches it on a
\* shared weekday and another overlaps it in time on a different weekday
TouchingAndOtherDayPass ==
  \E S \in TestedSchedules :
    /\ check_conflict(World, S) = {}
    /\ \E x \in Entries(starts) :
         x.end_time = S.start_time /\ x.days \cap S.days # {}
    /\ \E x \in Entries(starts) :
         Overlap(x, S) /\ x.days \cap S.days = {}

(* -------------------------------- C16 --------------------------------- *)
\* C16: when an activation fails with the schedule conflict, the value the
\* caller receives names a collision: the colliding ACTIVE task (its title,
\* for which the task of the ScheduleConflict stands), the start and the end
\* time of its window and the weekdays it shares with the task's schedule.
ConflictNamesCollision ==
  \A t \in DOMAIN tasks, m \in RequestMethods :
    update_task(World, t, m, ACTIVE).result
      = ConflictActiveTaskSchedulesException.code
    => \E c \in ConflictActiveTaskSchedulesException.detail.conflicts :
         /\ IsActive(c.task)
         /\ \E s \in TaskRows(t) : c \in check_conflict(World, s)

(* -------------------------------- C17 --------------------------------- *)
\* the states named in a sequence of the message table
Named(possible_states) ==
  {possible_states[i] : i \in 1..Len(possible_states)}

\* C17: for a task in state s, the destination states named in the detail of
\* ConflictTaskStateException(s) are exactly the states d # s for which the
\* match statement has a case, that is for which the request is not answered
\* with that exception.
DetailMatchesDispatch ==
  \A t \in DOMAIN tasks, m \in RequestMethods :
    Named(ConflictTaskStateException(tasks[t]).detail.possible_states)
      = {d \in TaskState \ {tasks[t]} :
           update_task(World, t, m, d).result
             # ConflictTaskStateException(tasks[t]).code}

\* a FINISHED task is refused the state PAUSED and told of ARCHIVED, while an
\* ACTIVE task could be told of PAUSED and FINISHED
FinishedToldOfArchived ==
  \E t \in DOMAIN tasks, u \in DOMAIN tasks :
    /\ tasks[t] = FINISHED /\ tasks[u] = ACTIVE
    /\ update_task(World, t, "PATCH", PAUSED).result = InvalidTransition
    /\ Named(ConflictTaskStateException(tasks[t]).detail.possible_states)
         = {ARCHIVED}

(* -------------------------------- C18 --------------------------------- *)
\* C18: after pause_all_tasks has completed no task is ACTIVE, both index
\* lists are empty, every task that was ACTIVE is PAUSED, every other task has
\* the state it had, and every persisted schedule is as before.
PauseAllPausesAll ==
  LET r == pause_all_tasks(World)
  IN r.result = OK
     => /\ \A t \in DOMAIN r.tasks : r.tasks[t] # ACTIVE
        /\ r.starts = <<>> /\ r.ends = <<>>
        /\ r.tasks = [t \in DOMAIN tasks |->
                        IF tasks[t] = ACTIVE THEN PAUSED ELSE tasks[t]]
        /\ r.schedules = schedules

\* two tasks are ACTIVE and a third is not, and pause_all_tasks completes
TwoActiveOneNot ==
  \E t \in DOMAIN tasks, u \in DOMAIN tasks, v \in DOMAIN tasks :
    /\ t # u /\ tasks[t] = ACTIVE /\ tasks[u] = ACTIVE /\ tasks[v] # ACTIVE
    /\ pause_all_tasks(World).result = OK

(* -------------------------------- C19 --------------------------------- *)
\* C19: while a task is ACTIVE or PAUSED, remove_all_tasks without force fails
\* with DeleteConflict and deletes no task and no schedule and leaves the
\* index as it is.
UnforcedRemoveAllRefused ==
  (\E t \in DOMAIN tasks : tasks[t] \in {ACTIVE, PAUSED})
  => remove_all_tasks(World, FALSE) = Raise(World, DeleteConflict)

\* a task is PAUSED, none is ACTIVE, another could be deleted on its own
PausedBlocksRemoveAll ==
  /\ \E t \in DOMAIN tasks : tasks[t] = PAUSED /\ TaskRows(t) # {}
  /\ \A t \in DOMAIN tasks : tasks[t] # ACTIVE
  /\ \E t \in DOMAIN tasks : tasks[t] = PLANNED
  /\ remove_all_tasks(World, FALSE).result = DeleteConflict

(* -------------------------------- C20 --------------------------------- *)
\* C20: remove_all_tasks succeeds when it is forced, whatever the states of
\* the tasks, and when it is not forced and no task is ACTIVE or PAUSED; after
\* it there is no task, no schedule, and both index lists are empty.
RemoveAllLeavesNothing ==
  \A force \in BOOLEAN :
    LET r == remove_all_tasks(World, force)
    IN /\ force \/ (\A t \in DOMAIN tasks : tasks[t] \notin {ACTIVE, PAUSED})
            => r.result = OK
       /\ r.result = OK
            => /\ r.tasks = <<>> /\ r.schedules = <<>>
               /\ r.starts = <<>> /\ r.ends = <<>>

\* an ACTIVE task, a PAUSED task with schedules and a third task are all
\* removed by force
MixedStatesRemovedByForce ==
  /\ \E t \in DOMAIN tasks : tasks[t] = ACTIVE
  /\ \E t \in DOMAIN tasks : tasks[t] = PAUSED /\ TaskRows(t) # {}
  /\ Cardinality(DOMAIN tasks) = 3
  /\ remove_all_tasks(World, TRUE).result = OK

(* -------------------------------- C22 --------------------------------- *)
\* C22: every persisted schedule belongs to an existing task, and a delete
\* that succeeds, forced or not, leaves no schedule of the deleted task.
SchedulesHaveTasks ==
  /\ \A pk \in DOMAIN schedules : schedules[pk].task \in DOMAIN tasks
  /\ \A t \in DOMAIN tasks, force \in BOOLEAN :
       LET r == remove_task(World, t, force)
       IN r.result = OK
          => /\ t \notin DOMAIN r.tasks
             /\ \A pk \in DOMAIN r.schedules : r.schedules[pk].task # t

\* a task has been deleted with its schedule, and a PLANNED task that has
\* schedules can be deleted next
DeletedWithSchedules ==
  /\ Cardinality(DOMAIN tasks) < nextTask - 1
  /\ Cardinality(DOMAIN schedules) < nextSchedule - 1
  /\ \E t \in DOMAIN tasks :
       /\ tasks[t] = PLANNED /\ TaskRows(t) # {}
       /\ remove_task(World, t, FALSE).result = OK

(* -------------------------------- C23 --------------------------------- *)
\* C23: remove_task with force succeeds whatever the state of the task; the
\* task and its schedules are gone, the index holds no entry of the task and
\* holds the entries of the other tasks as before, in place.
ForcedDelete ==
  \A t \in DOMAIN tasks :
    LET r == remove_task(World, t, TRUE)
    IN /\ r.result = OK
       /\ DOMAIN r.tasks = DOMAIN tasks \ {t}
       /\ \A u \in DOMAIN r.tasks : r.tasks[u] = tasks[u]
       /\ t \notin {e.task : e \in Entries(r.starts) \cup Entries(r.ends)}
       /\ r.starts = WithoutTask(starts, t)
       /\ r.ends = WithoutTask(ends, t)

\* an ACTIVE task can be deleted by force while another ACTIVE task is indexed
\* with the same start time
ForceOnActiveBesideActive ==
  \E t \in DOMAIN tasks, u \in DOMAIN tasks :
    /\ t # u /\ tasks[t] = ACTIVE /\ tasks[u] = ACTIVE
    /\ remove_task(World, t, TRUE).result = OK
    /\ \E a \in Entries(starts), b \in Entries(starts) :
         a.task = t /\ b.task = u /\ a.start_time = b.start_time

(* -------------------------------- C29 --------------------------------- *)
\* the codes of the business conflicts (the ConflictException classes)
ConflictCodes ==
  {InvalidTransition, InvalidCreationState, MissingSchedules,
   ScheduleConflictCode, DeleteConflict}

\* C29: remove_task_schedules for a task without schedules raises LogicError,
\* which is none of the business conflicts, and leaves both index lists as
\* they are.
RemoveNeedsSchedules ==
  \A t \in DOMAIN tasks :
    TaskRows(t) = {}
    => /\ remove_task_schedules(World, t) = Raise(World, LogicError)
       /\ remove_task_schedules(World, t).result \notin ConflictCodes

\* a task has no schedule while the index holds schedules of another task
NoSchedulesBesideIndexed ==
  \E t \in DOMAIN tasks :
    /\ TaskRows(t) = {} /\ starts # <<>> /\ ends # <<>>
    /\ remove_task_schedules(World, t).result = LogicError

(* -------------------------------- C30 --------------------------------- *)
\* C30: every ACTIVE task has a persisted schedule, and neither its pause, its
\* finish or its forced delete, nor pause_all_tasks or remove_all_tasks, ends
\* in the LogicError of remove_task_schedules.
ActiveTasksHaveSchedules ==
  /\ \A t \in DOMAIN tasks :
       tasks[t] = ACTIVE
       => /\ TaskRows(t) # {}
          /\ \A m \in RequestMethods, d \in {PAUSED, FINISHED} :
               update_task(World, t, m, d).result # LogicError
          /\ remove_task(World, t, TRUE).result # LogicError
  /\ pause_all_tasks(World).result # LogicError
  /\ \A force \in BOOLEAN : remove_all_tasks(World, force).result # LogicError

\* two tasks are ACTIVE, one of them with two schedules
ActiveWithTwoSchedules ==
  \E t \in DOMAIN tasks, u \in DOMAIN tasks :
    /\ t # u /\ tasks[t] = ACTIVE /\ tasks[u] = ACTIVE
    /\ Cardinality(TaskRows(t)) = 2

(* -------------------------------- C21 --------------------------------- *)
\* the primary keys of the persisted schedules of ACTIVE tasks
ActivePks == {pk \in DOMAIN schedules : tasks[schedules[pk].task] = ACTIVE}

\* C21: whatever the index holds, after restart_service each of the two lists
\* holds one entry for each persisted schedule of an ACTIVE task, carrying the
\* schedule as it is persisted under its start (end) time, and nothing else.
RestartRebuildsIndex ==
  LET r == restart_service(World)
  IN /\ r.result = OK
     /\ r.tasks = tasks /\ r.schedules = schedules
     /\ Len(r.starts) = Cardinality(ActivePks)
     /\ Len(r.ends) = Cardinality(ActivePks)
     /\ {<<e[1], e[2]>> : e \in {r.starts[i] : i \in 1..Len(r.starts)}}
          = {<<schedules[pk].start_time, ScheduleObj(World, pk)>> : pk \in ActivePks}
     /\ {<<e[1], e[2]>> : e \in {r.ends[i] : i \in 1..Len(r.ends)}}
          = {<<schedules[pk].end_time, ScheduleObj(World, pk)>> : pk \in ActivePks}

\* before the restart the index holds an entry that no longer matches its
\* row, and lacks a schedule of an ACTIVE task
StaleAndMissingEntries ==
  /\ \E e \in Entries(starts) :
       e.pk \notin DOMAIN schedules \/ ScheduleObj(World, e.pk) # e
  /\ ActivePks \ EntryPks(starts) # {}

(* -------------------------------- C27 --------------------------------- *)
\* C27: in every state a request leaves behind, the persisted schedules of a
\* task are all in a list of the index or none of them is, and
\* remove_task_schedules either removes all of them or, failing, none.
SchedulesIndexedAsASet ==
  \A t \in DOMAIN tasks :
    LET pks == {pk \in DOMAIN schedules : schedules[pk].task = t}
        r == remove_task_schedules(World, t)
    IN /\ pks \subseteq EntryPks(starts) \/ pks \cap EntryPks(starts) = {}
       /\ pks \subseteq EntryPks(ends) \/ pks \cap EntryPks(ends) = {}
       /\ r.result # OK => r.starts = starts /\ r.ends = ends

(* -------------------------------- C28 --------------------------------- *)
\* C28: also with schedules of ACTIVE tasks created, edited and deleted through
\* ScheduleViewSet, each list of the index holds exactly the persisted
\* schedules of the ACTIVE tasks, as they are persisted, and the pause, the
\* finish and the forced delete of an ACTIVE task complete and leave no entry
\* of the task in the index.
IndexFollowsScheduleRows ==
  /\ EntryPks(starts) = ActivePks /\ EntryPks(ends) = ActivePks
  /\ \A e \in Entries(starts) \cup Entries(ends) : e = ScheduleObj(World, e.pk)
  /\ \A t \in DOMAIN tasks :
       tasks[t] = ACTIVE
       => \A r \in {update_task(World, t, "PATCH", PAUSED),
                     update_task(World, t, "PATCH", FINISHED),
                     remove_task(World, t, TRUE)} :
            /\ r.result = OK
            /\ t \notin {e.task : e \in Entries(r.starts) \cup Entries(r.ends)}

(* -------------------------------- C24 --------------------------------- *)
\* C24: a request whose save raises after the index was changed leaves both
\* index lists as they were before the request, so that in every state a
\* schedule is in the index if and only if the persisted state of its task is
\* ACTIVE.
IndexRolledBackWithSave ==
  /\ \A t \in DOMAIN tasks, m \in RequestMethods, d \in TaskState :
       LET r == update_task(WorldSaveRaises, t, m, d)
       IN r.result = DatabaseError => r.starts = starts /\ r.ends = ends
  /\ \A e \in Entries(starts) \cup Entries(ends) : IsActive(e.task)
  /\ \A pk \in ActivePks : pk \in EntryPks(starts) \cap EntryPks(ends)

(* ---------------------------------------------------------------------- *)
\* C25: when two activation requests for two different tasks whose windows
\* conflict run at the same time, at most one of them succeeds: the index
\* never holds colliding schedules of two tasks that both became ACTIVE.
ConflictingActivationsExclude ==
  \A a \in Entries(starts), b \in Entries(starts) :
    (a.task # b.task /\ IsActive(a.task) /\ IsActive(b.task)) => ~Collide(a, b)

(* ---------------------------------------------------------------------- *)
\* C26: whenever a conflict check is about to read the index, the list
\* ordered by start and the list ordered by end hold the same schedules,
\* also while another request is in the middle of adding.
ChecksSeeWholeEntries ==
  \A th \in Threads :
    requests[th].pc = "check" => Entries(starts) = Entries(ends)

(* ---------------------------------------------------------------------- *)
\* C31: every persisted schedule, and so every schedule in the index, starts
\* before it ends and has a weekday set; a create or an update that carries a
\* window without a weekday, or one that does not start before it ends, is
\* rejected and stores nothing.
SchedulesAreValidWindows ==
  /\ \A pk \in DOMAIN schedules :
       schedules[pk].start_time < schedules[pk].end_time /\ schedules[pk].days # {}
  /\ \A e \in Entries(starts) \cup Entries(ends) :
       e.start_time < e.end_time /\ e.days # {}
  /\ \A window \in Windows :
       ~(window.start_time < window.end_time /\ window.days # {}) =>
         /\ \A t \in DOMAIN tasks :
              schedule_create(World, nextSchedule, t, window.start_time,
                              window.end_time, window.days)
                = Raise(World, IntegrityError)
         /\ \A pk \in DOMAIN schedules :
              schedule_update(World, pk, window.start_time, window.end_time,
                              window.days)
                = Raise(World, IntegrityError)

\* a schedule is in the index while another task has a schedule outside it
IndexedAndUnindexedRows ==
  \E pk \in DOMAIN schedules, qk \in DOMAIN schedules :
    /\ pk \in EntryPks(starts) \cap EntryPks(ends)
    /\ ~IsActive(schedules[qk].task)
    /\ schedules[qk].task # schedules[pk].task

(* ---------------------------------------------------------------------- *)
\* C32: every ScheduleConflict the conflict check of a schedule S may return
\* carries the task (for its title), the start time and the end time of one
\* indexed schedule X that overlaps S in time and shares a weekday with S, and
\* its weekdays are exactly the days S and X have in common: never none, never
\* a day that only one of the two has.
ConflictRecordDescribesOverlap ==
  \A S \in TestedSchedules :
    \A record \in check_conflict(World, S) :
      /\ record.weekdays # {}
      /\ record.weekdays \subseteq S.days
      /\ \E X \in Entries(starts) \cap Entries(ends) :
           /\ record.task = X.task
           /\ record.start_time = X.start_time
           /\ record.end_time = X.end_time
           /\ Overlap(S, X)
           /\ record.weekdays = S.days \cap X.days

\* the check of a schedule returns fewer weekdays than the schedule has, and
\* the check of another returns fewer than the indexed window has
RecordWithFewerDays ==
  /\ \E S \in TestedSchedules :
       \E record \in check_conflict(World, S) : record.weekdays # S.days
  /\ \E S \in TestedSchedules :
       \E record \in check_conflict(World, S) :
         \E X \in Entries(starts) :
           /\ record.task = X.task
           /\ record.start_time = X.start_time
           /\ record.end_time = X.end_time
           /\ record.weekdays # X.days

(* ---------------------------------------------------------------------- *)
\* C33: an update that carries no state changes nothing of the lifecycle when
\* it is a PATCH; when it is a PUT it is handled as a request for PLANNED: it
\* succeeds on a PLANNED task and fails with the state conflict, nothing
\* saved, on an ACTIVE, PAUSED, FINISHED or ARCHIVED task.
UpdateWithoutState ==
  \A t \in DOMAIN tasks :
    /\ update_task(World, t, "PATCH", NoState) = World
    /\ update_task(World, t, "PUT", NoState) = update_task(World, t, "PUT", PLANNED)
    /\ tasks[t] = PLANNED => update_task(World, t, "PUT", NoState) = World
    /\ tasks[t] \in {ACTIVE, PAUSED, FINISHED, ARCHIVED} =>
         update_task(World, t, "PUT", NoState) = Raise(World, InvalidTransition)

\* a PLANNED task, an ACTIVE task and a FINISHED or ARCHIVED task exist
PlannedActiveAndDone ==
  /\ \E t \in DOMAIN tasks : tasks[t] = PLANNED
  /\ \E t \in DOMAIN tasks : tasks[t] = ACTIVE
  /\ \E t \in DOMAIN tasks : tasks[t] \in {FINISHED, ARCHIVED}

(* ---------------------------------------------------------------------- *)
\* C34: the schedules of a task are tested against the index as it is before
\* the activation, never against each other: a PLANNED or PAUSED task that has
\* schedules, none of which collides with an indexed schedule of another
\* task, is activated with all of them in the index, also when its own
\* schedules overlap each other on a shared weekday.
OwnSchedulesAreNotCompared ==
  \A t \in DOMAIN tasks :
    LET r == update_task(World, t, "PATCH", ACTIVE)
    IN (/\ tasks[t] \in {PLANNED, PAUSED}
        /\ TaskRows(t) # {}
        /\ \A s \in TaskRows(t), x \in Entries(starts) \cup Entries(ends) :
             x.task = t \/ ~Collide(s, x))
       => /\ r.result = OK
          /\ r.tasks[t] = ACTIVE
          /\ \A s \in TaskRows(t) :
               s.pk \in EntryPks(r.starts) \cap EntryPks(r.ends)

\* an ACTIVE task has two indexed schedules that collide with each other,
\* beside the indexed schedule of another ACTIVE task
ActiveWithCollidingOwnSchedules ==
  \E a \in Entries(starts), b \in Entries(starts), c \in Entries(starts) :
    /\ a.pk # b.pk /\ a.task = b.task /\ Collide(a, b)
    /\ c.task # a.task
    /\ IsActive(a.task) /\ IsActive(c.task)

(* ---------------------------------------------------------------------- *)
\* C35: the lifecycle goes one way. In every step a task that is not PLANNED
\* is not PLANNED afterwards, and a task that is FINISHED or ARCHIVED is,
\* unless the step deletes it, FINISHED or ARCHIVED afterwards and has no
\* schedule in the index.
LifecycleIsOneWay ==
  [][\A t \in DOMAIN tasks \cap DOMAIN tasks' :
       /\ tasks[t] # PLANNED => tasks'[t] # PLANNED
       /\ tasks[t] \in {FINISHED, ARCHIVED} =>
            /\ tasks'[t] \in {FINISHED, ARCHIVED}
            /\ \A i \in 1..Len(starts') : starts'[i][2].task # t
            /\ \A i \in 1..Len(ends') : ends'[i][2].task # t]_vars

\* a task has been FINISHED or ARCHIVED, another has left PLANNED and has been
\* PAUSED, and a third is still PLANNED
DoneAndPausedBesidePlanned ==
  /\ \E t \in DOMAIN tasks : tasks[t] \in {FINISHED, ARCHIVED}
  /\ \E t \in DOMAIN tasks : tasks[t] = PAUSED
  /\ \E t \in DOMAIN tasks : tasks[t] = PLANNED

(* ---------------------------------------------------------------------- *)
\* C36: a persisted schedule is at most once in the list ordered by start and
\* at most once in the list ordered by end; set_state_active,
\* set_state_paused, set_state_finished and set_state_archived called for a
\* task in a state they do not accept raise LogicError and leave the index
\* and the rows as they are.
IndexedOnceAndGuarded ==
  /\ \A pk \in DOMAIN schedules :
       /\ Cardinality({i \in 1..Len(starts) : starts[i][2].pk = pk}) <= 1
       /\ Cardinality({i \in 1..Len(ends) : ends[i][2].pk = pk}) <= 1
  /\ \A t \in DOMAIN tasks :
       /\ tasks[t] \notin {PLANNED, PAUSED} =>
            set_state_active(World, t) = Raise(World, LogicError)
       /\ tasks[t] # ACTIVE =>
            set_state_paused(World, t) = Raise(World, LogicError)
       /\ tasks[t] \notin {ACTIVE, PAUSED, ARCHIVED} =>
            set_state_finished(World, t) = Raise(World, LogicError)
       /\ tasks[t] # FINISHED =>
            set_state_archived(World, t) = Raise(World, LogicError)

\* set_state_active refuses an ACTIVE task that has indexed schedules, and
\* set_state_paused refuses a FINISHED task
GuardsRefuseActiveAndFinished ==
  /\ \E t \in DOMAIN tasks :
       /\ IsActive(t)
       /\ \E pk \in EntryPks(starts) : schedules[pk].task = t
       /\ set_state_active(World, t).result = LogicError
  /\ \E t \in DOMAIN tasks :
       tasks[t] = FINISHED /\ set_state_paused(World, t).result = LogicError

(* ---------------------------------------------------------------------- *)
\* C37: in every state the lifecycle requests lead to, the request to finish
\* an ACTIVE or a PAUSED task succeeds whatever the other tasks and the index
\* hold, and the unforced delete of the task succeeds after it; the unforced
\* delete of a PLANNED task succeeds at once. So every task is at most one
\* transition away from a state in which it can be deleted without force.
FinishAlwaysPossible ==
  \A t \in DOMAIN tasks :
    /\ tasks[t] \in {ACTIVE, PAUSED} =>
         \A request_method \in RequestMethods :
           LET finished == update_task(World, t, request_method, FINISHED)
               deleted == remove_task(finished, t, FALSE)
           IN /\ finished.result = OK
              /\ finished.tasks[t] = FINISHED
              /\ deleted.result = OK
              /\ t \notin DOMAIN deleted.tasks
    /\ tasks[t] = PLANNED =>
         LET deleted == remove_task(World, t, FALSE)
         IN deleted.result = OK /\ t \notin DOMAIN deleted.tasks

\* an ACTIVE task, a PAUSED task and a PLANNED task exist, and the unforced
\* delete of the first two is refused as they are
OneTransitionFromDelete ==
  /\ \E t \in DOMAIN tasks :
       IsActive(t) /\ remove_task(World, t, FALSE).result = DeleteConflict
  /\ \E t \in DOMAIN tasks :
       tasks[t] = PAUSED /\ remove_task(World, t, FALSE).result = DeleteConflict
  /\ \E t \in DOMAIN tasks : tasks[t] = PLANNED

(* ---------------------------------------------------------------------- *)
\* what request r, made for task t, left of the other tasks: their states,
\* their persisted schedules and their index entries are as before
OthersUntouched(r, t) ==
  /\ \A u \in DOMAIN tasks \ {t} : u \in DOMAIN r.tasks /\ r.tasks[u] = tasks[u]
  /\ \A pk \in DOMAIN schedules :
       schedules[pk].task # t =>
         pk \in DOMAIN r.schedules /\ r.schedules[pk] = schedules[pk]
  /\ \A pk \in DOMAIN r.schedules :
       r.schedules[pk].task # t => pk \in DOMAIN schedules
  /\ WithoutTask(r.starts, t) = WithoutTask(starts, t)
  /\ WithoutTask(r.ends, t) = WithoutTask(ends, t)

\* C38: the creation of a task, a requested transition of a task and the
\* deletion of a task, whether they succeed or fail, change neither the state
\* nor the persisted schedules nor the index entries of any other task.
SingleTaskFrame ==
  /\ \A state \in TaskState \cup {NoState} :
       OthersUntouched(create_task(World, nextTask, state), nextTask)
  /\ \A t \in DOMAIN tasks :
       /\ \A request_method \in RequestMethods, state \in TaskState \cup {NoState} :
            OthersUntouched(update_task(World, t, request_method, state), t)
       /\ \A force \in BOOLEAN :
            OthersUntouched(remove_task(World, t, force), t)

\* two ACTIVE tasks have indexed schedules that start at the same time on
\* different weekdays; the pause and the forced delete of one succeed, and
\* its return to PLANNED is refused
SucceedAndFailBesideActive ==
  \E a \in Entries(starts), b \in Entries(starts) :
    /\ a.task # b.task /\ IsActive(a.task) /\ IsActive(b.task)
    /\ a.start_time = b.start_time /\ a.days \cap b.days = {}
    /\ update_task(World, a.task, "PATCH", PAUSED).result = OK
    /\ remove_task(World, a.task, TRUE).result = OK
    /\ update_task(World, a.task, "PATCH", PLANNED).result = InvalidTransition

====
